---------------------------- MODULE Spec2Model ----------------------------
(***************************************************************************)
(* The bingo server of src/server.js (the version that starts at line 208: *)
(* games registry, activeGameId pointer, socket.io handlers, draw timers). *)
(*                                                                         *)
(* Every socket event and every timer callback is one atomic action: node  *)
(* runs each handler to completion on a single thread.  Session objects    *)
(* live in a heap and are named by their index, because timer closures     *)
(* keep a reference to the object they were created for even after the     *)
(* registry entry of the code has been replaced.                           *)
(*                                                                         *)
(* Strings that the code converts (codes, names) are sequences of          *)
(* character codes, so that trim / toUpperCase / toLowerCase / slice are   *)
(* computed.  Connection ids are opaque strings.                           *)
(***************************************************************************)
EXTENDS Integers, Sequences, FiniteSets, TLC

\* ------------------------------------------------------------------ bounds

\* Session objects alive at once: those in the registry plus those that only a
\* pending timer still references.
MaxObjs == 2

\* Pending setTimeout callbacks (host:start schedules one per call).
MaxTimeouts == 1

\* Times createCode returns a code that is already in the registry.
MaxCollisions == 0

\* Outcomes of Math.random() followed per draw.
MaxChoices == 1

\* ------------------------------------------------------- program constants

\* The pool of a session: Array.from({ length: 75 }, (_, i) => i + 1).
PoolSize == 75

\* Side of a card and of its marked grid.
GridSize == 5

\* Width of the number range of one card column ([1,15], [16,30], ...).
ColumnSpan == 15

\* cleanName = (name || '').trim().slice(0, 20)
MaxNameLen == 20

\* ---------------------------------------------------------------- strings

Space == 32

IsLower(ch) == ch >= 97 /\ ch <= 122

IsUpper(ch) == ch >= 65 /\ ch <= 90

\* String.prototype.toUpperCase on the ASCII sample alphabet.
toUpperCase(s) == [i \in 1..Len(s) |-> IF IsLower(s[i]) THEN s[i] - 32 ELSE s[i]]

\* String.prototype.toLowerCase on the ASCII sample alphabet.
toLowerCase(s) == [i \in 1..Len(s) |-> IF IsUpper(s[i]) THEN s[i] + 32 ELSE s[i]]

RECURSIVE trimStart(_)
trimStart(s) == IF s # <<>> /\ Head(s) = Space THEN trimStart(Tail(s)) ELSE s

RECURSIVE trimEnd(_)
trimEnd(s) ==
  IF s # <<>> /\ s[Len(s)] = Space THEN trimEnd(SubSeq(s, 1, Len(s) - 1)) ELSE s

\* String.prototype.trim.
trim(s) == trimEnd(trimStart(s))

\* String.prototype.slice(0, n).
slice0(s, n) == SubSeq(s, 1, IF Len(s) < n THEN Len(s) ELSE n)

\* normalizeCode(value): (value || '').toString().trim().toUpperCase(); an
\* absent gameId is the empty string.
normalizeCode(value) == toUpperCase(trim(value))

\* ----------------------------------------------------------------- values

\* "ABCD" and "WXYZ", two results of createCode.
CodeA == <<65, 66, 67, 68>>

CodeB == <<87, 88, 89, 90>>

\* " abcd ": CodeA as a client may type it.
TypedA == <<32, 97, 98, 99, 100, 32>>

\* "wxyz": CodeB as a client may type it.
TypedB == <<119, 120, 121, 122>>

\* "QQQQ": a code no session was created under.
Unknown == <<81, 81, 81, 81>>

\* An absent or blank gameId.
Blank == <<>>

\* "Bob", " bob ", "Al" and "  ".
NameBob == <<66, 111, 98>>

NameBobTyped == <<32, 98, 111, 98, 32>>

NameAl == <<65, 108>>

NameSpaces == <<32, 32>>

\* No session object (games.get(code) is undefined).
NoObj == 0

\* activeGameId = null.
NoCode == <<>>

\* game.current = null.
NoNumber == 0

\* The 'FREE' sentinel of a card's centre.
FREE == 0

\* game.winner = null.
NoWinner == [id |-> "", name |-> <<>>]

\* game.numbers
Numbers == 1..PoolSize

Idx == 0..(GridSize - 1)

Cells == Idx \X Idx

Centre == GridSize \div 2

\* ------------------------------------------------------------------- cards

\* createCard's result: numbers[c] holds GridSize distinct numbers of the
\* c-th range, in sampling order, except numbers[2][2] = 'FREE'; marked is
\* all false except marked[2][2].  Sequences are 1-based here, so
\* numbers[c][r] of the code is numbers[c + 1][r + 1].
IsCardNumbers(numbers) ==
  /\ Len(numbers) = GridSize
  /\ \A c \in Idx :
       /\ Len(numbers[c + 1]) = GridSize
       /\ \A r \in Idx :
            IF c = Centre /\ r = Centre
              THEN numbers[c + 1][r + 1] = FREE
              ELSE numbers[c + 1][r + 1] \in (c * ColumnSpan + 1)..((c + 1) * ColumnSpan)
       /\ \A r1, r2 \in Idx :
            r1 # r2 => numbers[c + 1][r1 + 1] # numbers[c + 1][r2 + 1]

\* Two outcomes of createCard's sampling.  In CardRow the numbers 3, 17, 48,
\* 62 fill row 2; in CardDiag they fill the main diagonal.
CardRow ==
  << <<1, 2, 3, 4, 5>>, <<16, 18, 17, 19, 20>>, <<31, 32, FREE, 34, 35>>,
     <<46, 47, 48, 49, 50>>, <<61, 63, 62, 64, 65>> >>

CardDiag ==
  << <<3, 1, 2, 4, 5>>, <<16, 17, 18, 19, 20>>, <<31, 32, FREE, 34, 35>>,
     <<46, 47, 49, 48, 50>>, <<61, 63, 64, 65, 62>> >>

FreshMarked == [cell \in Cells |-> cell = <<Centre, Centre>>]

\* createCard(): { numbers, marked } for one outcome of the sampling.
createCard(numbers) == [numbers |-> numbers, marked |-> FreshMarked]

\* player.card.numbers[col][row]
CardValue(card, row, col) == card.numbers[col + 1][row + 1]

\* The numbers the followed outcomes of Math.random() in drawNumber select,
\* in the order of preference.
DrawSample == <<3, 17, 48, 62>>

\* ---------------------------------------------------------------- hasBingo

\* hasBingo as it would be without the check of the anti-diagonal.
hasBingoNoAntiDiagonal(marked) ==
  \/ \E r \in Idx : \A c \in Idx : marked[<<r, c>>]
  \/ \E c \in Idx : \A r \in Idx : marked[<<r, c>>]
  \/ \A i \in Idx : marked[<<i, i>>]

hasBingo(marked) ==
  \/ \E r \in Idx : \A c \in Idx : marked[<<r, c>>]
  \/ \E c \in Idx : \A r \in Idx : marked[<<r, c>>]
  \/ \A i \in Idx : marked[<<i, i>>]
  \/ \A i \in Idx : marked[<<i, (GridSize - 1) - i>>]

\* ------------------------------------------------------------------- state

VARIABLES
  heap,          \* slot -> the session object stored there, or Free
  games,         \* the registry: code -> slot of its session object
  activeGameId,  \* the pointer used by code-less joins, or NoCode
  timeouts,      \* pending setTimeout callbacks of host:start, oldest first
  armed,         \* slots of the objects whose setInterval timer is live
  meta,          \* room -> payload of the last state:meta sent to it
  roster,        \* room -> payload of the last state:players sent to it
  feed,          \* room -> number of the last number:drawn sent to it since
                 \*         the last game:reset (absent when there was none)
  collisions     \* times host:create has replaced an existing registry entry

vars == <<heap, games, activeGameId, timeouts, armed, meta, roster, feed, collisions>>

Slots == 1..MaxObjs

\* A slot that holds no object.
Free == [free |-> TRUE]

Range(f) == {f[i] : i \in DOMAIN f}

\* f without the key k.
Without(f, k) == [x \in (DOMAIN f) \ {k} |-> f[x]]

\* An acknowledgement: ok, the error text, and the fields some handlers add.
Ack(ok, error) ==
  [ok |-> ok, error |-> error, gameId |-> NoCode, valid |-> "absent",
   disqualified |-> "absent", winner |-> NoWinner]

\* No acknowledgement (timer callbacks, disconnect).
NoAck == Ack(TRUE, "")

\* The mutable world as one value, so that the helpers of the code can be
\* written as functions applied one after the other; ack is the response.
World ==
  [heap |-> heap, games |-> games, activeGameId |-> activeGameId,
   timeouts |-> timeouts, armed |-> armed, meta |-> meta, roster |-> roster,
   feed |-> feed, ack |-> NoAck]

reply(w, a) == [w EXCEPT !.ack = a]

\* games.get(code)
Lookup(w, code) == IF code \in DOMAIN w.games THEN w.games[code] ELSE NoObj

FreeSlots(w) == {g \in Slots : w.heap[g] = Free}

\* Where a new object is stored: the lowest free slot.
NewSlot(w) == CHOOSE g \in FreeSlots(w) : \A h \in FreeSlots(w) : g <= h

\* Objects that nothing references any more (no registry entry, no pending
\* timeout, no live interval) are gone.  Of an object that only timers still
\* reference, the part no callback reads (players, hostSocketId) is gone too:
\* the callbacks read started, closed, drawn, current, interval and id.
collect(w) ==
  LET timers == Range(w.timeouts) \cup w.armed
  IN [w EXCEPT !.heap =
        [g \in Slots |->
           IF g \in Range(w.games) THEN @[g]
           ELSE IF g \in timers /\ @[g] # Free
             THEN [@[g] EXCEPT !.players = <<>>, !.hostSocketId = ""]
           ELSE Free]]

\* ------------------------------------------------------------------ helpers

newGameState(code, hostSocketId) ==
  [id |-> code, hostSocketId |-> hostSocketId, players |-> <<>>,
   started |-> FALSE, closed |-> FALSE, winner |-> NoWinner,
   drawn |-> <<>>, current |-> NoNumber, interval |-> FALSE]

\* activeGameId = code ? normalizeCode(code) : null, announced to everyone.
setActiveGame(w, code) ==
  [w EXCEPT !.activeGameId = IF code # NoCode THEN normalizeCode(code) ELSE NoCode]

MetaPayload(game) ==
  [started |-> game.started, closed |-> game.closed, winner |-> game.winner,
   drawnCount |-> Len(game.drawn), current |-> game.current]

emitMeta(w, g) ==
  LET game == w.heap[g] IN
  [w EXCEPT !.meta = (game.id :> MetaPayload(game)) @@ @]

PlayersPayload(game) ==
  [i \in 1..Len(game.players) |->
     [id |-> game.players[i].id, name |-> game.players[i].name,
      disqualified |-> game.players[i].disqualified]]

emitPlayers(w, g) ==
  LET game == w.heap[g] IN
  [w EXCEPT !.roster = (game.id :> PlayersPayload(game)) @@ @]

\* io.to(game.id).emit('number:drawn', { number, drawn })
emitDrawn(w, g, number) ==
  [w EXCEPT !.feed = (w.heap[g].id :> number) @@ @]

\* io.to(code).emit('game:reset')
emitReset(w, code) ==
  [w EXCEPT !.feed = Without(@, code)]

\* The numbers left as they would be without the filter on game.drawn.
RemainingUnfiltered(game) == [i \in 1..PoolSize |-> i]

\* game.numbers.filter(n => !game.drawn.includes(n))
Remaining(game) ==
  SelectSeq([i \in 1..PoolSize |-> i], LAMBDA n : n \notin Range(game.drawn))

\* Math.floor(Math.random() * remaining.length), for the outcomes followed:
\* those that select one of the first MaxChoices numbers of DrawSample that
\* are still in remaining.  0 (unused) when nothing remains.
RandomIndexes(game) ==
  LET remaining == Remaining(game)
      left      == SelectSeq(DrawSample, LAMBDA n : n \in Range(remaining))
      followed  == {left[k] : k \in 1..(IF Len(left) < MaxChoices THEN Len(left) ELSE MaxChoices)}
  IN IF remaining = <<>> THEN {0}
     ELSE {i \in 0..(Len(remaining) - 1) : remaining[i + 1] \in followed}

\* drawNumber(game) with the random index rnd; a null result leaves w as is.
drawNumber(w, g, rnd) ==
  LET game == w.heap[g]
      remaining == Remaining(game)
  IN IF remaining = <<>> THEN w
     ELSE LET selection == remaining[rnd + 1]
              w1 == [w EXCEPT !.heap[g].drawn = Append(@, selection),
                              !.heap[g].current = selection]
          IN emitMeta(emitDrawn(w1, g, selection), g)

\* stopAutoDraw as it would be if it left the interval running.
stopAutoDrawKeepTimer(w, g) ==
  emitMeta([w EXCEPT !.heap[g].started = FALSE], g)

stopAutoDraw(w, g) ==
  LET w1 == IF w.heap[g].interval
              THEN [w EXCEPT !.armed = @ \ {g}, !.heap[g].interval = FALSE]
              ELSE w
  IN emitMeta([w1 EXCEPT !.heap[g].started = FALSE], g)

\* startAutoDraw(game): the previous interval is cleared, a new one is set.
startAutoDraw(w, g) ==
  LET w1 == IF w.heap[g].interval THEN [w EXCEPT !.armed = @ \ {g}] ELSE w
  IN [w1 EXCEPT !.armed = @ \cup {g}, !.heap[g].interval = TRUE]

\* closeGame as it would be if it recorded the winner and did nothing else.
closeGameWinnerOnly(w, g, winner) ==
  emitMeta([w EXCEPT !.heap[g].winner = winner], g)

\* closeGame as it would be without the call of stopAutoDraw.
closeGameNoStop(w, g, winner) ==
  LET w1 == [w EXCEPT !.heap[g].closed = TRUE, !.heap[g].winner = winner]
  IN setActiveGame(emitMeta(w1, g), NoCode)

\* closeGame as it would be if it left the active-session pointer alone.
closeGameKeepActive(w, g, winner) ==
  LET w1 == [w EXCEPT !.heap[g].closed = TRUE, !.heap[g].winner = winner]
  IN emitMeta(stopAutoDraw(w1, g), g)

closeGame(w, g, winner) ==
  LET w1 == [w EXCEPT !.heap[g].closed = TRUE, !.heap[g].winner = winner]
  IN setActiveGame(emitMeta(stopAutoDraw(w1, g), g), NoCode)

\* The callback of setInterval in startAutoDraw.
\* The interval callback as it would be with > 75 in place of >= 75.
intervalCallbackOffByOne(w, g, rnd) ==
  LET game == w.heap[g] IN
  IF ~game.started \/ game.closed THEN w
  ELSE IF Len(game.drawn) > PoolSize THEN stopAutoDraw(w, g)
  ELSE drawNumber(w, g, rnd)

\* The interval callback as it would be if it never stopped auto-draw.
intervalCallbackNeverStops(w, g, rnd) ==
  LET game == w.heap[g] IN
  IF ~game.started \/ game.closed THEN w ELSE drawNumber(w, g, rnd)

intervalCallback(w, g, rnd) ==
  LET game == w.heap[g] IN
  IF ~game.started \/ game.closed THEN w
  ELSE IF Len(game.drawn) >= PoolSize THEN stopAutoDraw(w, g)
  ELSE drawNumber(w, g, rnd)

\* The callback of setTimeout in host:start.
\* The delayed first draw as it would be without the test of started.
timeoutCallbackUnguarded(w, g, rnd) ==
  LET game == w.heap[g] IN
  IF ~game.closed THEN drawNumber(w, g, rnd) ELSE w

timeoutCallback(w, g, rnd) ==
  LET game == w.heap[g] IN
  IF game.started /\ ~game.closed THEN drawNumber(w, g, rnd) ELSE w

\* ---------------------------------------------------------------- handlers

\* Position of socket's entry in game.players (a Map keyed by socket.id, kept
\* here in insertion order), or 0.
PlayerIndex(game, socket) ==
  IF \E i \in 1..Len(game.players) : game.players[i].id = socket
    THEN CHOOSE i \in 1..Len(game.players) : game.players[i].id = socket
    ELSE 0

\* game.players.set(socket.id, player): a present key keeps its position.
playersSet(players, player) ==
  IF \E i \in 1..Len(players) : players[i].id = player.id
    THEN [i \in 1..Len(players) |-> IF players[i].id = player.id THEN player ELSE players[i]]
    ELSE Append(players, player)

\* game.players.delete(socket.id)
playersDelete(players, socket) == SelectSeq(players, LAMBDA p : p.id # socket)

hostCreate(w, socket, code) ==
  LET g  == NewSlot(w)
      w1 == [w EXCEPT !.heap[g] = newGameState(code, socket),
                      !.games = (code :> g) @@ @]
      w2 == reply(w1, [Ack(TRUE, "") EXCEPT !.gameId = code])
  IN setActiveGame(emitPlayers(emitMeta(w2, g), g), code)

\* host:join as it would be if it made the session active whether or not it
\* is closed.
hostJoinAlwaysActive(w, socket, gameId) ==
  LET code == normalizeCode(gameId)
      g    == Lookup(w, code)
  IN IF g = NoObj THEN reply(w, Ack(FALSE, "Game not found"))
     ELSE LET w1 == [w EXCEPT !.heap[g].hostSocketId = socket]
              w2 == reply(w1, [Ack(TRUE, "") EXCEPT !.gameId = code])
              w3 == emitPlayers(emitMeta(w2, g), g)
          IN setActiveGame(w3, code)

\* The host:join handler (lines 397-410).
hostJoin(w, socket, gameId) ==
  LET code == normalizeCode(gameId)
      g    == Lookup(w, code)
  IN IF g = NoObj THEN reply(w, Ack(FALSE, "Game not found"))
     ELSE LET w1 == [w EXCEPT !.heap[g].hostSocketId = socket]
              w2 == reply(w1, [Ack(TRUE, "") EXCEPT !.gameId = code])
              w3 == emitPlayers(emitMeta(w2, g), g)
          IN IF ~w3.heap[g].closed THEN setActiveGame(w3, code) ELSE w3

\* host:start as it would be with the players check before the closed check.
hostStartPlayersFirst(w, socket, gameId) ==
  LET code == normalizeCode(gameId)
      g    == Lookup(w, code)
  IN IF g = NoObj THEN reply(w, Ack(FALSE, "Game not found"))
     ELSE IF Len(w.heap[g].players) = 0 THEN reply(w, Ack(FALSE, "No players"))
     ELSE IF w.heap[g].closed THEN reply(w, Ack(FALSE, "Game already ended"))
     ELSE LET w1 == emitMeta([w EXCEPT !.heap[g].started = TRUE], g)
              w2 == [w1 EXCEPT !.timeouts = Append(@, g)]
          IN reply(startAutoDraw(w2, g), Ack(TRUE, ""))

\* host:start as it would be without the check of game.closed.
hostStartNoClosedCheck(w, socket, gameId) ==
  LET code == normalizeCode(gameId)
      g    == Lookup(w, code)
  IN IF g = NoObj THEN reply(w, Ack(FALSE, "Game not found"))
     ELSE IF Len(w.heap[g].players) = 0 THEN reply(w, Ack(FALSE, "No players"))
     ELSE LET w1 == emitMeta([w EXCEPT !.heap[g].started = TRUE], g)
              w2 == [w1 EXCEPT !.timeouts = Append(@, g)]
          IN reply(startAutoDraw(w2, g), Ack(TRUE, ""))

hostStart(w, socket, gameId) ==
  LET code == normalizeCode(gameId)
      g    == Lookup(w, code)
  IN IF g = NoObj THEN reply(w, Ack(FALSE, "Game not found"))
     ELSE IF w.heap[g].closed THEN reply(w, Ack(FALSE, "Game already ended"))
     ELSE IF Len(w.heap[g].players) = 0 THEN reply(w, Ack(FALSE, "No players"))
     ELSE LET w1 == emitMeta([w EXCEPT !.heap[g].started = TRUE], g)
              w2 == [w1 EXCEPT !.timeouts = Append(@, g)]
          IN reply(startAutoDraw(w2, g), Ack(TRUE, ""))

\* host:stop as it would be if it ended the session.
hostStopCloses(w, socket, gameId) ==
  LET g == Lookup(w, normalizeCode(gameId))
  IN IF g = NoObj THEN reply(w, Ack(FALSE, "Game not found"))
     ELSE reply(stopAutoDraw([w EXCEPT !.heap[g].closed = TRUE], g), Ack(TRUE, ""))

hostStop(w, socket, gameId) ==
  LET g == Lookup(w, normalizeCode(gameId))
  IN IF g = NoObj THEN reply(w, Ack(FALSE, "Game not found"))
     ELSE reply(stopAutoDraw(w, g), Ack(TRUE, ""))

\* host:reset as it would be if the fresh session kept the players of the
\* session it replaces.
hostResetKeepPlayers(w, socket, gameId) ==
  LET code    == normalizeCode(gameId)
      current == Lookup(w, code)
  IN IF current = NoObj THEN reply(w, Ack(FALSE, "Game not found"))
     ELSE LET w1    == IF w.heap[current].interval
                         THEN [w EXCEPT !.armed = @ \ {current}] ELSE w
              fresh == NewSlot(w1)
              w2    == [w1 EXCEPT
                          !.heap[fresh] =
                             [newGameState(code, w.heap[current].hostSocketId)
                                EXCEPT !.players = w.heap[current].players],
                          !.games = (code :> fresh) @@ @]
              w3    == emitPlayers(emitMeta(emitReset(w2, code), fresh), fresh)
          IN setActiveGame(reply(w3, Ack(TRUE, "")), code)

hostReset(w, socket, gameId) ==
  LET code    == normalizeCode(gameId)
      current == Lookup(w, code)
  IN IF current = NoObj THEN reply(w, Ack(FALSE, "Game not found"))
     ELSE LET w1    == IF w.heap[current].interval
                         THEN [w EXCEPT !.armed = @ \ {current}] ELSE w
              fresh == NewSlot(w1)
              w2    == [w1 EXCEPT
                          !.heap[fresh] = newGameState(code, w.heap[current].hostSocketId),
                          !.games = (code :> fresh) @@ @]
              w3    == emitPlayers(emitMeta(emitReset(w2, code), fresh), fresh)
          IN setActiveGame(reply(w3, Ack(TRUE, "")), code)

\* The name check of player:join as it would be if it compared the names as
\* they are written.
duplicateCaseSensitive(game, cleanName) ==
  \E i \in 1..Len(game.players) : game.players[i].name = cleanName

\* [...game.players.values()].some(player =>
\*   player.name.toLowerCase() === cleanName.toLowerCase())
duplicate(game, cleanName) ==
  \E i \in 1..Len(game.players) :
    toLowerCase(game.players[i].name) = toLowerCase(cleanName)

\* The resolution of player:join as it would be if the active-session
\* pointer came before the code the player typed.
resolvedActiveFirst(w, requested) ==
  IF w.activeGameId # NoCode THEN w.activeGameId ELSE requested

\* requested || activeGameId
resolved(w, requested) ==
  IF requested # NoCode THEN requested ELSE w.activeGameId

playerJoin(w, socket, gameId, name, numbers) ==
  LET requested == normalizeCode(gameId)
      g         == IF resolved(w, requested) # NoCode
                     THEN Lookup(w, resolved(w, requested)) ELSE NoObj
  IN IF g = NoObj THEN reply(w, Ack(FALSE, "Waiting for host to start a game"))
     ELSE IF w.heap[g].closed THEN reply(w, Ack(FALSE, "Game already ended"))
     ELSE LET game      == w.heap[g]
              cleanName == slice0(trim(name), MaxNameLen)
          IN IF cleanName = <<>> THEN reply(w, Ack(FALSE, "Name required"))
             ELSE IF duplicate(game, cleanName) THEN reply(w, Ack(FALSE, "Name already taken"))
             ELSE LET player == [id |-> socket, name |-> cleanName,
                                 card |-> createCard(numbers), disqualified |-> FALSE]
                      w1 == [w EXCEPT !.heap[g].players = playersSet(@, player)]
                      w2 == reply(w1, [Ack(TRUE, "") EXCEPT !.gameId = game.id,
                                                            !.winner = game.winner])
                  IN emitMeta(emitPlayers(w2, g), g)

\* The player check of player:mark as it would be without the disqualified
\* flag.
markRefusedUnknownOnly(game, i) == i = 0

\* !player || player.disqualified, for the player at position i (0: none).
markRefused(game, i) == i = 0 \/ game.players[i].disqualified

\* The drawn check of player:mark as it would be if it let every number pass.
notDrawnNever(game, value) == FALSE

\* !game.drawn.includes(value)
notDrawn(game, value) == value \notin Range(game.drawn)

\* player:mark as it would be if a line-completing mark did not close the
\* session.
playerMarkNoClose(w, socket, gameId, row, col) ==
  LET g == Lookup(w, normalizeCode(gameId))
  IN IF g = NoObj \/ w.heap[g].closed \/ ~w.heap[g].started THEN reply(w, Ack(FALSE, ""))
     ELSE LET game == w.heap[g]
              i    == PlayerIndex(game, socket)
          IN IF markRefused(game, i) THEN reply(w, Ack(FALSE, ""))
             ELSE LET player == game.players[i]
                      value  == CardValue(player.card, row, col)
                  IN IF value = FREE THEN reply(w, Ack(TRUE, ""))
                     ELSE IF notDrawn(game, value)
                       THEN reply(w, Ack(FALSE, "Number not drawn"))
                     ELSE IF player.card.marked[<<row, col>>] THEN reply(w, Ack(TRUE, ""))
                     ELSE LET w1 == [w EXCEPT
                                       !.heap[g].players[i].card.marked[<<row, col>>] = TRUE]
                          IN emitMeta(emitPlayers(reply(w1, Ack(TRUE, "")), g), g)

\* The player:mark handler (lines 486-505).
playerMark(w, socket, gameId, row, col) ==
  LET g == Lookup(w, normalizeCode(gameId))
  IN IF g = NoObj \/ w.heap[g].closed \/ ~w.heap[g].started THEN reply(w, Ack(FALSE, ""))
     ELSE LET game == w.heap[g]
              i    == PlayerIndex(game, socket)
          IN IF markRefused(game, i) THEN reply(w, Ack(FALSE, ""))
             ELSE LET player == game.players[i]
                      value  == CardValue(player.card, row, col)
                  IN IF value = FREE THEN reply(w, Ack(TRUE, ""))
                     ELSE IF notDrawn(game, value)
                       THEN reply(w, Ack(FALSE, "Number not drawn"))
                     ELSE IF player.card.marked[<<row, col>>] THEN reply(w, Ack(TRUE, ""))
                     ELSE LET w1 == [w EXCEPT
                                       !.heap[g].players[i].card.marked[<<row, col>>] = TRUE]
                              won == hasBingo(w1.heap[g].players[i].card.marked)
                                       /\ ~w1.heap[g].closed
                              w2 == IF won
                                      THEN closeGame(w1, g, [id |-> player.id, name |-> player.name])
                                      ELSE w1
                          IN emitMeta(emitPlayers(reply(w2, Ack(TRUE, "")), g), g)

playerClaim(w, socket, gameId) ==
  LET g == Lookup(w, normalizeCode(gameId))
  IN IF g = NoObj \/ w.heap[g].closed \/ ~w.heap[g].started THEN reply(w, Ack(FALSE, ""))
     ELSE LET game == w.heap[g]
              i    == PlayerIndex(game, socket)
          IN IF i = 0 THEN reply(w, Ack(FALSE, ""))
             ELSE LET player == game.players[i] IN
                  IF hasBingo(player.card.marked)
                    THEN LET w1 == IF ~game.closed
                                     THEN closeGame(w, g, [id |-> player.id, name |-> player.name])
                                     ELSE w
                         IN reply(w1, [Ack(TRUE, "") EXCEPT !.valid = "true",
                                                            !.winner = w1.heap[g].winner])
                    ELSE LET w1 == emitPlayers([w EXCEPT !.heap[g].players[i].disqualified = TRUE], g)
                         IN reply(w1, [Ack(TRUE, "") EXCEPT !.valid = "false",
                                                            !.disqualified = "true"])

\* The loop of the disconnect handler over games.values(); codes is the
\* sequence of registry keys still to visit.
RECURSIVE disconnectFrom(_, _, _)
disconnectFrom(w, socket, codes) ==
  IF codes = <<>> THEN w
  ELSE LET g  == w.games[Head(codes)]
           w1 == IF PlayerIndex(w.heap[g], socket) # 0
                   THEN emitPlayers([w EXCEPT !.heap[g].players = playersDelete(@, socket)], g)
                   ELSE w
       IN disconnectFrom(w1, socket, Tail(codes))

\* The keys of games as a sequence.  Each session's entry is handled on its
\* own, so the order of the visit does not show in the result.
RegistryKeys(w) ==
  SelectSeq(<<CodeA, CodeB>>, LAMBDA c : c \in DOMAIN w.games)

\* The disconnect handler as it would be if it stopped after the first
\* session.
disconnectFirstOnly(w, socket) ==
  IF RegistryKeys(w) = <<>> THEN w
  ELSE disconnectFrom(w, socket, <<Head(RegistryKeys(w))>>)

disconnect(w, socket) == disconnectFrom(w, socket, RegistryKeys(w))

\* ----------------------------------------------------------------- actions

\* The world a handler or callback leaves becomes the next state.
Commit(w0) ==
  LET w == collect(w0) IN
  /\ heap' = w.heap
  /\ games' = w.games
  /\ activeGameId' = w.activeGameId
  /\ timeouts' = w.timeouts
  /\ armed' = w.armed
  /\ meta' = w.meta
  /\ roster' = w.roster
  /\ feed' = w.feed

HostCreate(socket, code) ==
  /\ FreeSlots(World) # {}
  /\ code \in DOMAIN games => collisions < MaxCollisions
  /\ collisions' = IF code \in DOMAIN games THEN collisions + 1 ELSE collisions
  /\ Commit(hostCreate(World, socket, code))

HostJoin(socket, gameId) ==
  /\ UNCHANGED collisions
  /\ Commit(hostJoin(World, socket, gameId))

HostStart(socket, gameId) ==
  LET w == hostStart(World, socket, gameId) IN
  /\ Len(w.timeouts) <= MaxTimeouts
  /\ UNCHANGED collisions
  /\ Commit(w)

HostStop(socket, gameId) ==
  /\ UNCHANGED collisions
  /\ Commit(hostStop(World, socket, gameId))

HostReset(socket, gameId) ==
  /\ Lookup(World, normalizeCode(gameId)) # NoObj => FreeSlots(World) # {}
  /\ UNCHANGED collisions
  /\ Commit(hostReset(World, socket, gameId))

PlayerJoin(socket, gameId, name, numbers) ==
  /\ UNCHANGED collisions
  /\ Commit(playerJoin(World, socket, gameId, name, numbers))

PlayerMark(socket, gameId, row, col) ==
  /\ UNCHANGED collisions
  /\ Commit(playerMark(World, socket, gameId, row, col))

PlayerClaim(socket, gameId) ==
  /\ UNCHANGED collisions
  /\ Commit(playerClaim(World, socket, gameId))

Disconnect(socket) ==
  /\ UNCHANGED collisions
  /\ Commit(disconnect(World, socket))

\* The random indexes a callback on the object in slot g can use: one of the
\* followed outcomes when it reaches drawNumber, 0 (unused) otherwise.
CallbackIndexes(g) ==
  IF heap[g].started /\ ~heap[g].closed THEN RandomIndexes(heap[g]) ELSE {0}

\* A live setInterval timer fires.
IntervalFire(g) ==
  /\ g \in armed
  /\ UNCHANGED collisions
  /\ \E rnd \in CallbackIndexes(g) : Commit(intervalCallback(World, g, rnd))

\* The oldest pending setTimeout fires (all have the same delay).
TimeoutFire ==
  /\ timeouts # <<>>
  /\ UNCHANGED collisions
  /\ \E rnd \in CallbackIndexes(Head(timeouts)) :
       Commit(timeoutCallback([World EXCEPT !.timeouts = Tail(@)], Head(timeouts), rnd))

\* The server after construction: no sessions, no active game, no timers.
Init ==
  /\ heap = [g \in Slots |-> Free]
  /\ games = <<>>
  /\ activeGameId = NoCode
  /\ timeouts = <<>>
  /\ armed = {}
  /\ meta = <<>>
  /\ roster = <<>>
  /\ feed = <<>>
  /\ collisions = 0

\* One event on the sessions there are, its arguments taken from the samples
\* in I.
Events(I) ==
  \/ \E in \in I.hostJoin : HostJoin(in[1], in[2])
  \/ \E in \in I.start : HostStart(in[1], in[2])
  \/ \E in \in I.stop : HostStop(in[1], in[2])
  \/ \E in \in I.reset : HostReset(in[1], in[2])
  \/ \E in \in I.join : PlayerJoin(in[1], in[2], in[3], in[4])
  \/ \E in \in I.mark : PlayerMark(in[1], in[2], in[3], in[4])
  \/ \E in \in I.claim : PlayerClaim(in[1], in[2])
  \/ \E socket \in I.disconnect : Disconnect(socket)
  \/ \E g \in Slots : IntervalFire(g)
  \/ TimeoutFire

\* One event, host:create included.
Step(I) ==
  \/ \E in \in I.create : HostCreate(in[1], in[2])
  \/ Events(I)

\* One session: s1 creates "ABCD" and hosts it, s2 resets it; s1 plays as
\* "Bob" on CardRow, s2 as "Al" or, typed " bob ", as "bob" on CardDiag.
SoloInputs ==
  [create     |-> {<<"s1", CodeA>>},
   hostJoin   |-> {<<"s1", TypedA>>, <<"s2", Unknown>>},
   start      |-> {<<"s1", TypedA>>, <<"s1", Unknown>>},
   stop       |-> {<<"s1", TypedA>>, <<"s1", Unknown>>},
   reset      |-> {<<"s2", TypedA>>, <<"s2", Unknown>>},
   join       |-> {<<"s1", TypedA, NameBob, CardRow>>,
                   <<"s1", Blank, NameSpaces, CardRow>>,
                   <<"s2", Blank, NameAl, CardDiag>>,
                   <<"s2", TypedA, NameBobTyped, CardDiag>>,
                   <<"s2", Unknown, NameAl, CardDiag>>},
   mark       |-> {<<"s1", TypedA, 2, 0>>, <<"s1", TypedA, 2, 1>>, <<"s1", TypedA, 2, 2>>,
                   <<"s1", TypedA, 2, 3>>, <<"s1", TypedA, 2, 4>>, <<"s1", Unknown, 2, 0>>,
                   <<"s2", TypedA, 0, 0>>, <<"s2", TypedA, 1, 1>>, <<"s2", TypedA, 3, 3>>,
                   <<"s2", TypedA, 4, 4>>, <<"s2", TypedA, 2, 0>>},
   claim      |-> {<<"s1", TypedA>>, <<"s2", TypedA>>, <<"s2", Unknown>>},
   disconnect |-> {"s1", "s2"}]

Next == Step(SoloInputs)

Spec == Init /\ [][Next]_vars

\* ------------------------------------------------------------- late in a game

\* The numbers of the pool that are not in DrawSample, in ascending order.
DrawnLate == SelectSeq([i \in 1..PoolSize |-> i], LAMBDA n : n \notin Range(DrawSample))

\* The session "ABCD" late in a game: s1 created it and joined as "Bob", s1
\* started it, the delayed first draw has fired, and the draws so far have
\* selected every number that is not in DrawSample, lowest first.  Nothing
\* has been marked yet.
LateGame ==
  [newGameState(CodeA, "s1") EXCEPT
     !.players = <<[id |-> "s1", name |-> NameBob, card |-> createCard(CardRow),
                    disqualified |-> FALSE]>>,
     !.started = TRUE,
     !.drawn = DrawnLate,
     !.current = DrawnLate[Len(DrawnLate)],
     !.interval = TRUE]

InitLate ==
  /\ heap = [g \in Slots |-> IF g = 1 THEN LateGame ELSE Free]
  /\ games = (CodeA :> 1)
  /\ activeGameId = CodeA
  /\ timeouts = <<>>
  /\ armed = {1}
  /\ meta = (CodeA :> MetaPayload(LateGame))
  /\ roster = (CodeA :> PlayersPayload(LateGame))
  /\ feed = (CodeA :> LateGame.current)
  /\ collisions = 0

\* The events late in the game: as in SoloInputs, but host:reset is sent for
\* an unknown code only (the game is not begun anew) and s2, when it joins,
\* marks one cell only.
LateInputs ==
  [SoloInputs EXCEPT
     !.reset = {<<"s2", Unknown>>},
     !.mark  = {<<"s1", TypedA, 2, 0>>, <<"s1", TypedA, 2, 1>>, <<"s1", TypedA, 2, 2>>,
                <<"s1", TypedA, 2, 3>>, <<"s1", TypedA, 2, 4>>, <<"s1", TypedA, 0, 0>>,
                <<"s2", TypedA, 2, 0>>}]

NextLate == Events(LateInputs)

SpecLate == InitLate /\ [][NextLate]_vars

\* --------------------------------------------------- a game left to run out

\* The events of a game that is left to run: no host:stop, no host:reset,
\* and marks that complete no line (three cells of Bob's card, two of them
\* on the middle row, and one of Al's).
LiveInputs ==
  [LateInputs EXCEPT
     !.mark = {<<"s1", TypedA, 2, 0>>, <<"s1", TypedA, 2, 1>>, <<"s1", TypedA, 0, 0>>,
               <<"s2", TypedA, 2, 0>>}]

NextLive ==
  \/ \E in \in LiveInputs.hostJoin : HostJoin(in[1], in[2])
  \/ \E in \in LiveInputs.start : HostStart(in[1], in[2])
  \/ \E in \in LiveInputs.join : PlayerJoin(in[1], in[2], in[3], in[4])
  \/ \E in \in LiveInputs.mark : PlayerMark(in[1], in[2], in[3], in[4])
  \/ \E in \in LiveInputs.claim : PlayerClaim(in[1], in[2])
  \/ \E socket \in LiveInputs.disconnect : Disconnect(socket)
  \/ \E g \in Slots : IntervalFire(g)
  \/ TimeoutFire

\* The repeating timer of some session has a tick that changes the state:
\* the enabling condition of the step <<\E g \in Slots : IntervalFire(g)>>_vars.
IntervalDue ==
  \E g \in armed :
    \E rnd \in CallbackIndexes(g) : collect(intervalCallback(World, g, rnd)) # World

\* setInterval keeps firing: a tick that stays due is not put off for ever.
\* This is weak fairness of the interval step, with its enabling condition
\* written out as IntervalDue.
IntervalFair ==
  []<>(~IntervalDue) \/ []<><<\E g \in Slots : IntervalFire(g)>>_vars

SpecLive ==
  InitLate /\ [][NextLive]_vars /\ IntervalFair

\* ------------------------------------------------------------ two sessions

\* The server after s1 has sent host:create twice and the codes drawn were
\* "ABCD" and then "WXYZ": two idle sessions, the second one active.
InitDuo ==
  /\ heap = [g \in Slots |->
               IF g = 1 THEN newGameState(CodeA, "s1")
               ELSE IF g = 2 THEN newGameState(CodeB, "s1") ELSE Free]
  /\ games = (CodeA :> 1) @@ (CodeB :> 2)
  /\ activeGameId = CodeB
  /\ timeouts = <<>>
  /\ armed = {}
  /\ meta = (CodeA :> MetaPayload(newGameState(CodeA, "s1")))
               @@ (CodeB :> MetaPayload(newGameState(CodeB, "s1")))
  /\ roster = (CodeA :> <<>>) @@ (CodeB :> <<>>)
  /\ feed = <<>>
  /\ collisions = 0

\* s1 plays as "Bob" in both sessions and can win "ABCD" on its middle row;
\* s2 joins the active session as "Al"; "ABCD" is started and stopped, and
\* host:join makes either session the active one again.
DuoInputs ==
  [hostJoin   |-> {<<"s1", TypedA>>, <<"s1", TypedB>>},
   start      |-> {<<"s1", TypedA>>, <<"s1", TypedB>>},
   stop       |-> {<<"s1", TypedA>>},
   reset      |-> {<<"s2", Unknown>>},
   join       |-> {<<"s1", TypedA, NameBob, CardRow>>,
                   <<"s1", TypedB, NameBob, CardRow>>,
                   <<"s2", Blank, NameAl, CardDiag>>},
   mark       |-> {<<"s1", TypedA, 2, 0>>, <<"s1", TypedA, 2, 1>>,
                   <<"s1", TypedA, 2, 3>>, <<"s1", TypedA, 2, 4>>},
   claim      |-> {<<"s1", TypedA>>, <<"s2", TypedB>>},
   disconnect |-> {"s1", "s2"}]

NextDuo == Events(DuoInputs)

SpecDuo == InitDuo /\ [][NextDuo]_vars

\* ------------------------------------------------------ grids for hasBingo

\* The 12 lines of the grid as sets of cells <<r, c>>: 5 rows, 5 columns, the
\* main diagonal and the anti-diagonal.
Lines ==
  {{cell \in Cells : cell[1] = r} : r \in Idx}
    \cup {{cell \in Cells : cell[2] = c} : c \in Idx}
    \cup {{cell \in Cells : cell[1] = cell[2]}}
    \cup {{cell \in Cells : cell[1] + cell[2] = GridSize - 1}}

\* Some line of the grid is entirely true.
SomeLineFull(marked) == \E line \in Lines : \A cell \in line : marked[cell]

\* The grid whose true cells are those of the set S.
GridOf(S) == [cell \in Cells |-> cell \in S]

\* A set of cells with one cell of every line; the centre is not in it.
Transversal == {<<0, 0>>, <<1, 3>>, <<2, 1>>, <<3, 2>>, <<4, 4>>}

\* The grids a player's card can show in a running session: the centre is
\* marked and no line is full.  The sample has the unions of two lines with
\* one cell of each taken away, and the grid that misses exactly the cells
\* of Transversal.
GridSample ==
  {marked \in
     {GridOf(((l1 \cup l2) \ {x, y}) \cup {<<Centre, Centre>>}) :
        <<l1, l2, x, y>> \in {q \in Lines \X Lines \X Cells \X Cells :
                                 q[3] \in q[1] /\ q[4] \in q[2]}}
       \cup {GridOf(Cells \ Transversal)} :
     ~SomeLineFull(marked)}

\* The numbers of CardRow, lowest first.
DrawnCard ==
  SelectSeq([i \in 1..PoolSize |-> i],
            LAMBDA n : \E cell \in Cells : CardRow[cell[2] + 1][cell[1] + 1] = n)

\* The session "ABCD" in mid-game: s1 hosts it and plays as "Bob" on CardRow,
\* every number of the card has been drawn, and Bob's marks are marked.
GridGame(marked) ==
  [newGameState(CodeA, "s1") EXCEPT
     !.players = <<[id |-> "s1", name |-> NameBob,
                    card |-> [numbers |-> CardRow, marked |-> marked],
                    disqualified |-> FALSE]>>,
     !.started = TRUE,
     !.drawn = DrawnCard,
     !.current = DrawnCard[Len(DrawnCard)],
     !.interval = TRUE]

InitGrid ==
  \E marked \in GridSample :
    /\ heap = [g \in Slots |-> IF g = 1 THEN GridGame(marked) ELSE Free]
    /\ games = (CodeA :> 1)
    /\ activeGameId = CodeA
    /\ timeouts = <<>>
    /\ armed = {1}
    /\ meta = (CodeA :> MetaPayload(GridGame(marked)))
    /\ roster = (CodeA :> PlayersPayload(GridGame(marked)))
    /\ feed = (CodeA :> GridGame(marked).current)
    /\ collisions = 0

\* Bob marks a corner of the anti-diagonal, a corner of the main diagonal or
\* a cell of the middle row, or claims.
GridInputs ==
  [mark  |-> {<<"s1", TypedA, 0, 4>>, <<"s1", TypedA, 0, 0>>, <<"s1", TypedA, 2, 0>>},
   claim |-> {<<"s1", TypedA>>}]

NextGrid ==
  \/ \E in \in GridInputs.mark : PlayerMark(in[1], in[2], in[3], in[4])
  \/ \E in \in GridInputs.claim : PlayerClaim(in[1], in[2])

SpecGrid == InitGrid /\ [][NextGrid]_vars


\* ------------------------------------------------------------------ claims

\* The session object registered under code c.
Session(c) == heap[games[c]]

\* The same, in the next state.
SessionNext(c) == heap'[games'[c]]

\* C1: exactly one winner per session lifetime.  In every step and for every
\* registered session: a winner is recorded only together with closing the
\* session (closed, not started, the winner being one of its players); and
\* while the registry keeps the session object, a recorded winner is never
\* changed or cleared and the session stays closed, whatever event is
\* processed.  (host:reset replaces the object.)
OneWinnerStep ==
  \A c \in DOMAIN games :
    (c \in DOMAIN games' /\ games'[c] = games[c]) =>
      /\ Session(c).winner # NoWinner =>
           SessionNext(c).winner = Session(c).winner /\ SessionNext(c).closed
      /\ (Session(c).winner = NoWinner /\ SessionNext(c).winner # NoWinner) =>
           /\ SessionNext(c).closed /\ ~SessionNext(c).started
           /\ ~Session(c).closed
           /\ \E i \in 1..Len(Session(c).players) :
                SessionNext(c).winner =
                  [id |-> Session(c).players[i].id, name |-> Session(c).players[i].name]

OneWinner == [][OneWinnerStep]_vars

\* A player has won while the other one has marked all of its line but the
\* last cell, whose number is drawn: its winning attempt comes too late.
OneWinnerWitness ==
  \E c \in DOMAIN games :
    /\ Session(c).winner # NoWinner
    /\ \E i \in 1..Len(Session(c).players) :
         LET p == Session(c).players[i] IN
         /\ p.id # Session(c).winner.id
         /\ ~hasBingo(p.card.marked)
         /\ \E cell \in Cells :
              /\ CardValue(p.card, cell[1], cell[2]) \in Range(Session(c).drawn)
              /\ hasBingo([p.card.marked EXCEPT ![cell] = TRUE])

\* The events that C2 lists: every event but host:create and host:reset.
ListedEvent ==
  \/ \E in \in SoloInputs.hostJoin : HostJoin(in[1], in[2])
  \/ \E in \in SoloInputs.start : HostStart(in[1], in[2])
  \/ \E in \in SoloInputs.stop : HostStop(in[1], in[2])
  \/ \E in \in SoloInputs.join : PlayerJoin(in[1], in[2], in[3], in[4])
  \/ \E in \in SoloInputs.mark : PlayerMark(in[1], in[2], in[3], in[4])
  \/ \E in \in SoloInputs.claim : PlayerClaim(in[1], in[2])
  \/ \E socket \in SoloInputs.disconnect : Disconnect(socket)
  \/ \E g \in Slots : IntervalFire(g)
  \/ TimeoutFire

\* C2: closed is irreversible except by reset.  A step of host:start,
\* host:stop, host:join, player:join, player:mark, player:claim, disconnect or
\* a timer leaves every closed registered session registered, closed and not
\* started.
ClosedStaysStep ==
  ListedEvent =>
    \A c \in DOMAIN games :
      Session(c).closed =>
        /\ c \in DOMAIN games'
        /\ SessionNext(c).closed
        /\ ~SessionNext(c).started

ClosedStays == [][ClosedStaysStep]_vars

\* A closed session on which host:start is refused, with a player in it and
\* a draw callback of an earlier host:start still pending.
ClosedStaysWitness ==
  \E c \in DOMAIN games :
    /\ Session(c).closed
    /\ Len(Session(c).players) > 0
    /\ games[c] \in Range(timeouts)

\* C3: host:reset on an existing code, from any session state, leaves the
\* registry entry for that code with started=false, closed=false, winner=null,
\* drawn empty, current null, no players and no timer, under the same code and
\* the same host id.
ResetFreshStep ==
  \A in \in SoloInputs.reset :
    LET code == normalizeCode(in[2]) IN
    (HostReset(in[1], in[2]) /\ code \in DOMAIN games) =>
      /\ code \in DOMAIN games'
      /\ SessionNext(code) = newGameState(code, Session(code).hostSocketId)
      /\ games'[code] \notin armed'
      /\ games'[code] \notin Range(timeouts')

ResetFresh == [][ResetFreshStep]_vars

\* A reset has replaced a running session: the registry holds a fresh idle
\* session of host s1 while the replaced object, with numbers drawn, is still
\* referenced by the delayed first draw of a later host:start.
ResetFreshWitness ==
  \E c \in DOMAIN games :
    /\ Session(c) = newGameState(c, "s1")
    /\ \E g \in Range(timeouts) :
         g # games[c] /\ heap[g].id = c /\ heap[g].drawn # <<>>

\* The object in slot g is one that a host:reset has replaced in the registry.
Replaced(g) == heap[g] # Free /\ g \notin Range(games)

\* C4: reset mid-game invalidates every pending timer of the old session.  A
\* timer callback (the repeating auto-draw or the delayed first draw) whose
\* session object has been replaced by host:reset draws no number into that
\* object and broadcasts no draw to the code's group.
StaleTimersSilentStep ==
  /\ \A g \in Slots :
       (Replaced(g) /\ heap'[g] # Free) => heap'[g].drawn = heap[g].drawn
  /\ (TimeoutFire /\ Replaced(Head(timeouts))) => (feed' = feed /\ meta' = meta)
  /\ \A g \in Slots :
       (IntervalFire(g) /\ Replaced(g)) => (feed' = feed /\ meta' = meta)

StaleTimersSilent == [][StaleTimersSilentStep]_vars

\* drawn has no duplicates, holds only numbers of 1..75, at most 75 of them.
DrawnWellFormed(drawn) ==
  /\ Cardinality(Range(drawn)) = Len(drawn)
  /\ Range(drawn) \subseteq Numbers
  /\ Len(drawn) <= PoolSize

\* C5: in every reachable state the drawn sequence of every session object
\* has no duplicates, only numbers in 1..75 and length at most 75; a step
\* either leaves the sequence of an object as it is or appends one number
\* that was not in it.
DrawnAppendOnlyStep ==
  \A g \in Slots :
    /\ heap[g] # Free => DrawnWellFormed(heap[g].drawn)
    /\ heap'[g] # Free => DrawnWellFormed(heap'[g].drawn)
    /\ (heap[g] # Free /\ heap'[g] # Free) =>
         \/ heap'[g].drawn = heap[g].drawn
         \/ \E n \in Numbers \ Range(heap[g].drawn) :
              heap'[g].drawn = Append(heap[g].drawn, n)

DrawnAppendOnly == [][DrawnAppendOnlyStep]_vars

\* All 75 numbers have been drawn in a session, the last of them by a draw
\* of this run.
DrawnAppendOnlyWitness ==
  \E c \in DOMAIN games :
    /\ Len(Session(c).drawn) = PoolSize
    /\ Session(c).current \in Range(DrawSample)

\* C6: exhaustion.  Once 75 numbers are drawn a further draw (drawNumber, also
\* when called by the delayed first draw of a later host:start) returns null
\* and changes nothing, drawn and current included; the next firing of the
\* auto-draw timer on the running session stops auto-draw: started becomes
\* false, the repeating timer is cancelled, nothing else of the session
\* changes, and the room is told.
Exhaustion ==
  \A g \in Slots :
    (heap[g] # Free /\ Len(heap[g].drawn) = PoolSize) =>
      /\ RandomIndexes(heap[g]) = {0}
      /\ drawNumber(World, g, 0) = World
      /\ timeoutCallback(World, g, 0) = World
      /\ (g \in armed /\ heap[g].started /\ ~heap[g].closed) =>
           LET w == collect(intervalCallback(World, g, 0)) IN
           /\ w.heap[g] = [heap[g] EXCEPT !.started = FALSE, !.interval = FALSE]
           /\ w.armed = armed \ {g}
           /\ w.meta[heap[g].id] = MetaPayload(w.heap[g])

\* The auto-draw of an exhausted session has stopped: 75 numbers drawn, not
\* started, not closed, no repeating timer, and the room has been told.
ExhaustionWitness ==
  \E c \in DOMAIN games :
    /\ Len(Session(c).drawn) = PoolSize
    /\ ~Session(c).started /\ ~Session(c).closed
    /\ ~Session(c).interval /\ games[c] \notin armed
    /\ meta[c].drawnCount = PoolSize /\ ~meta[c].started

\* C8: host:start answers 'Game not found' for an unknown code, 'Game already
\* ended' for a closed session and 'No players' for a session without players,
\* checked in that order, and then changes nothing and schedules nothing;
\* otherwise it sets started, schedules the delayed first draw and the
\* repeating timer, tells the room and answers ok.
StartOutcome ==
  \A in \in SoloInputs.start :
    LET g == Lookup(World, normalizeCode(in[2]))
        w == hostStart(World, in[1], in[2])
    IN IF g = NoObj THEN w = reply(World, Ack(FALSE, "Game not found"))
       ELSE IF heap[g].closed THEN w = reply(World, Ack(FALSE, "Game already ended"))
       ELSE IF Len(heap[g].players) = 0 THEN w = reply(World, Ack(FALSE, "No players"))
       ELSE /\ w.ack = Ack(TRUE, "")
            /\ w.heap = [heap EXCEPT ![g].started = TRUE, ![g].interval = TRUE]
            /\ w.timeouts = Append(timeouts, g)
            /\ w.armed = armed \cup {g}
            /\ w.meta[heap[g].id] = MetaPayload(w.heap[g])
            /\ w.games = games /\ w.activeGameId = activeGameId

\* A closed session that has lost all its players, so that the order of the
\* two checks decides the answer, while the first draw of the start that ran
\* this session is still pending.
StartOutcomeWitness ==
  \E c \in DOMAIN games :
    /\ Session(c).closed
    /\ Len(Session(c).players) = 0
    /\ games[c] \in Range(timeouts)

\* C9: player:mark and player:claim answer ok=false without error detail and
\* change no state when the session is missing, closed or not started, or the
\* caller is not a player of it; player:mark does the same when the caller is
\* disqualified.
SilentRefusal ==
  /\ \A in \in SoloInputs.mark :
       LET g == Lookup(World, normalizeCode(in[2])) IN
       (\/ g = NoObj
        \/ heap[g].closed
        \/ ~heap[g].started
        \/ \A i \in 1..Len(heap[g].players) :
              heap[g].players[i].id = in[1] => heap[g].players[i].disqualified)
         => playerMark(World, in[1], in[2], in[3], in[4]) = reply(World, Ack(FALSE, ""))
  /\ \A in \in SoloInputs.claim :
       LET g == Lookup(World, normalizeCode(in[2])) IN
       (\/ g = NoObj
        \/ heap[g].closed
        \/ ~heap[g].started
        \/ \A i \in 1..Len(heap[g].players) : heap[g].players[i].id # in[1])
         => playerClaim(World, in[1], in[2]) = reply(World, Ack(FALSE, ""))

\* A running session with a disqualified player who has an unmarked cell
\* whose number is drawn: the mark that is refused would otherwise succeed.
SilentRefusalWitness ==
  \E c \in DOMAIN games :
    /\ Session(c).started /\ ~Session(c).closed
    /\ \E i \in 1..Len(Session(c).players) :
         LET player == Session(c).players[i] IN
         /\ player.disqualified
         /\ \E cell \in Cells :
              /\ ~player.card.marked[cell]
              /\ CardValue(player.card, cell[1], cell[2]) \in Range(Session(c).drawn)

\* C10: a mark is accepted only for drawn numbers.  player:mark on a non-FREE
\* cell whose number is not in drawn answers 'Number not drawn' and changes
\* nothing, and every true cell of a player's marked grid other than the FREE
\* centre holds a number that is in the session's drawn sequence.
MarkedAreDrawn ==
  /\ \A c \in DOMAIN games :
       \A i \in 1..Len(Session(c).players) :
         LET card == Session(c).players[i].card IN
         \A cell \in Cells :
           (card.marked[cell] /\ cell # <<Centre, Centre>>) =>
             CardValue(card, cell[1], cell[2]) \in Range(Session(c).drawn)
  /\ \A in \in SoloInputs.mark :
       LET g == Lookup(World, normalizeCode(in[2])) IN
       (g # NoObj /\ heap[g].started /\ ~heap[g].closed) =>
         \A i \in 1..Len(heap[g].players) :
           LET player == heap[g].players[i]
               value  == CardValue(player.card, in[3], in[4])
           IN (/\ player.id = in[1]
               /\ ~player.disqualified
               /\ value # FREE
               /\ value \notin Range(heap[g].drawn))
                => playerMark(World, in[1], in[2], in[3], in[4])
                     = reply(World, Ack(FALSE, "Number not drawn"))

\* A player holds an accepted mark on a drawn number while another number of
\* the card has not been drawn, so a mark on it is refused.
MarkedAreDrawnWitness ==
  \E c \in DOMAIN games :
    /\ Session(c).started
    /\ \E i \in 1..Len(Session(c).players) :
         LET card == Session(c).players[i].card IN
         /\ ~Session(c).players[i].disqualified
         /\ \E cell \in Cells : card.marked[cell] /\ cell # <<Centre, Centre>>
         /\ \E in \in SoloInputs.mark :
              /\ in[1] = Session(c).players[i].id
              /\ normalizeCode(in[2]) = c
              /\ CardValue(card, in[3], in[4]) \notin Range(Session(c).drawn) \cup {FREE}

\* The mark input in is a fresh valid mark by the player at position i of the
\* object in slot g: the session runs, the player is not disqualified, the
\* cell is not FREE, its number is drawn and the cell is not yet marked.
FreshValidMark(in, g, i) ==
  /\ g # NoObj /\ heap[g].started /\ ~heap[g].closed
  /\ i \in 1..Len(heap[g].players)
  /\ heap[g].players[i].id = in[1]
  /\ ~heap[g].players[i].disqualified
  /\ CardValue(heap[g].players[i].card, in[3], in[4]) \in Range(heap[g].drawn)
  /\ ~heap[g].players[i].card.marked[<<in[3], in[4]>>]

\* C11: a fresh valid mark that makes the player's grid a winning one on a
\* non-closed session sets the cell, sets closed, sets winner to that
\* player's id and name, sets started=false, cancels the repeating timer and
\* clears the active-session pointer; a fresh valid mark that completes no
\* line changes only that one grid cell.
WinByMark ==
  \A in \in SoloInputs.mark :
    LET g == Lookup(World, normalizeCode(in[2])) IN
    \A i \in 1..(IF g = NoObj THEN 0 ELSE Len(heap[g].players)) :
      FreshValidMark(in, g, i) =>
        LET w      == playerMark(World, in[1], in[2], in[3], in[4])
            player == heap[g].players[i]
            marked == [player.card.marked EXCEPT ![<<in[3], in[4]>>] = TRUE]
            cellSet == [heap EXCEPT ![g].players[i].card.marked = marked]
        IN /\ w.ack = Ack(TRUE, "")
           /\ w.games = games /\ w.timeouts = timeouts
           /\ IF hasBingo(marked)
                THEN /\ w.heap = [cellSet EXCEPT
                                    ![g].closed = TRUE,
                                    ![g].winner = [id |-> player.id, name |-> player.name],
                                    ![g].started = FALSE,
                                    ![g].interval = FALSE]
                     /\ w.armed = armed \ {g}
                     /\ w.activeGameId = NoCode
                ELSE /\ w.heap = cellSet
                     /\ w.armed = armed
                     /\ w.activeGameId = activeGameId

\* The session was won by s2's mark of the last cell of the main diagonal:
\* s2 is the recorded winner with a winning grid and no false claim, and the
\* active-session pointer is cleared.
WinByMarkWitness ==
  \E c \in DOMAIN games :
    /\ Session(c).closed /\ ~Session(c).started
    /\ Session(c).winner.id = "s2"
    /\ activeGameId = NoCode
    /\ \E i \in 1..Len(Session(c).players) :
         /\ Session(c).players[i].id = "s2"
         /\ ~Session(c).players[i].disqualified
         /\ hasBingo(Session(c).players[i].card.marked)

\* The entry of connection socket in the player list players, as a set: empty
\* or one entry.
EntriesOf(players, socket) ==
  {players[i] : i \in {k \in 1..Len(players) : players[k].id = socket}}

\* A player:claim that passes the guards by the player at position i of
\* session c, whose grid is not a winning one, sets that player's
\* disqualified flag, answers valid=false, disqualified=true and changes
\* nothing else of the session.
FalseClaimEffect(c, i) ==
  LET g == games[c]
      p == heap[g].players[i]
  IN \A in \in SoloInputs.claim :
       (/\ in[1] = p.id /\ normalizeCode(in[2]) = c
        /\ heap[g].started /\ ~heap[g].closed
        /\ ~hasBingo(p.card.marked)) =>
         LET w == playerClaim(World, in[1], in[2]) IN
         /\ w.ack = [Ack(TRUE, "") EXCEPT !.valid = "false", !.disqualified = "true"]
         /\ w.heap = [heap EXCEPT ![g].players[i].disqualified = TRUE]
         /\ w.games = games /\ w.activeGameId = activeGameId
         /\ w.armed = armed /\ w.timeouts = timeouts

\* A disqualified player of session c holds no winning grid and is not the
\* recorded winner.
DisqualifiedNotWinner(c, i) ==
  LET p == Session(c).players[i] IN
  p.disqualified => (~hasBingo(p.card.marked) /\ Session(c).winner.id # p.id)

\* A mark by the disqualified player at position i of session c is refused
\* with the grid unchanged, also when the same connection has sent another
\* player:join before it.
DisqualifiedMarksRefused(c, i) ==
  LET p == Session(c).players[i] IN
  p.disqualified =>
    \A m \in SoloInputs.mark :
      (m[1] = p.id /\ normalizeCode(m[2]) = c) =>
        /\ playerMark(World, m[1], m[2], m[3], m[4]) = reply(World, Ack(FALSE, ""))
        /\ \A j \in SoloInputs.join :
             j[1] = p.id =>
               LET w1 == playerJoin(World, j[1], j[2], j[3], j[4])
                   w2 == playerMark(w1, m[1], m[2], m[3], m[4])
               IN /\ ~w2.ack.ok
                  /\ \A q \in EntriesOf(w2.heap[games[c]].players, p.id) :
                       q.card.marked = p.card.marked

\* C12: a player:claim that passes the guards without a winning grid sets
\* the player's disqualified flag and reports valid=false, disqualified=true
\* without closing the session; afterwards every player:mark by that player
\* is refused with the grid unchanged and that player is never the winner.
FalseClaimPenalty ==
  \A c \in DOMAIN games :
    \A i \in 1..Len(Session(c).players) :
      /\ FalseClaimEffect(c, i)
      /\ DisqualifiedNotWinner(c, i)
      /\ DisqualifiedMarksRefused(c, i)

\* What C12 says of the claim itself and of a disqualified entry as long as
\* it is in the player list.
FalseClaimPenaltyWhileListed ==
  \A c \in DOMAIN games :
    \A i \in 1..Len(Session(c).players) :
      /\ FalseClaimEffect(c, i)
      /\ DisqualifiedNotWinner(c, i)
      /\ Session(c).players[i].disqualified =>
           \A m \in SoloInputs.mark :
             (m[1] = Session(c).players[i].id /\ normalizeCode(m[2]) = c) =>
               playerMark(World, m[1], m[2], m[3], m[4]) = reply(World, Ack(FALSE, ""))

\* C13: the disqualified flag is one-way.  A step that keeps a session object
\* registered keeps every disqualified player entry of it disqualified and
\* with the same card, unless the step removes the entry (disconnect).
DisqualifiedOneWayStep ==
  \A g \in Range(games) \cap Range(games') :
    \A i \in 1..Len(heap[g].players) :
      heap[g].players[i].disqualified =>
        \A q \in EntriesOf(heap'[g].players, heap[g].players[i].id) :
          q.disqualified /\ q.card = heap[g].players[i].card

DisqualifiedOneWay == [][DisqualifiedOneWayStep]_vars

\* The session object a player:join with the code typed as gameId goes to: the
\* entry under the normalised code if that is not blank, else the entry the
\* active-session pointer names; NoObj if there is none.
JoinTarget(gameId) ==
  LET typed == normalizeCode(gameId)
      code  == IF typed = Blank THEN activeGameId ELSE typed
  IN IF code \in DOMAIN games THEN games[code] ELSE NoObj

\* The names a and b are the same ignoring case.
SameName(a, b) ==
  /\ Len(a) = Len(b)
  /\ \A k \in 1..Len(a) :
       \/ a[k] = b[k]
       \/ IsUpper(a[k]) /\ b[k] = a[k] + 32
       \/ IsUpper(b[k]) /\ a[k] = b[k] + 32

\* C14: display names are unique within a session, compared ignoring case, in
\* every reachable state; a player:join whose trimmed name is empty is
\* refused with 'Name required', one whose trimmed name equals the name of a
\* player of the session ignoring case with 'Name already taken', and both
\* change nothing.
NamesUnique ==
  /\ \A c \in DOMAIN games :
       \A i, k \in 1..Len(Session(c).players) :
         i # k => ~SameName(Session(c).players[i].name, Session(c).players[k].name)
  /\ \A in \in SoloInputs.join :
       LET g == JoinTarget(in[2]) IN
       (g # NoObj /\ ~heap[g].closed) =>
         LET w == playerJoin(World, in[1], in[2], in[3], in[4]) IN
         IF trim(in[3]) = <<>>
           THEN w = reply(World, Ack(FALSE, "Name required"))
           ELSE (\E i \in 1..Len(heap[g].players) :
                   SameName(heap[g].players[i].name, trim(in[3])))
                  => w = reply(World, Ack(FALSE, "Name already taken"))

\* Bob is in an open session that the active-session pointer names, and s2,
\* whose join as " bob " is refused, is in it under another name.
NamesUniqueWitness ==
  \E c \in DOMAIN games :
    /\ ~Session(c).closed /\ activeGameId = c
    /\ Len(Session(c).players) = 2
    /\ \E p \in EntriesOf(Session(c).players, "s1") : p.name = NameBob
    /\ \E p \in EntriesOf(Session(c).players, "s2") : p.name = NameAl

\* C15: host:stop is idempotent.  Applied to an existing session in any state
\* it leaves started=false and no repeating timer, with closed, winner, drawn,
\* current and players as before, and applied once more it changes nothing.
StopIdempotent ==
  \A in \in SoloInputs.stop :
    LET g  == Lookup(World, normalizeCode(in[2]))
        w1 == hostStop(World, in[1], in[2])
        w2 == hostStop(w1, in[1], in[2])
    IN /\ w2 = w1
       /\ g # NoObj =>
            /\ ~w1.heap[g].started /\ ~w1.heap[g].interval /\ g \notin w1.armed
            /\ w1.heap[g].closed = heap[g].closed
            /\ w1.heap[g].winner = heap[g].winner
            /\ w1.heap[g].drawn = heap[g].drawn
            /\ w1.heap[g].current = heap[g].current
            /\ w1.heap[g].players = heap[g].players

\* A session stopped in mid-game: numbers drawn, a player with a mark, not
\* started, not closed, no repeating timer.
StopIdempotentWitness ==
  \E c \in DOMAIN games :
    /\ ~Session(c).started /\ ~Session(c).closed
    /\ ~Session(c).interval /\ games[c] \notin armed
    /\ Len(Session(c).drawn) >= 2
    /\ \E i \in 1..Len(Session(c).players) :
         Session(c).players[i].card.marked # FreshMarked

\* C16: host:stop never sets closed or winner and leaves drawn, current and the
\* players unchanged: it changes started and the repeating timer only.  A
\* stopped, non-closed session with a player is started again by host:start,
\* which keeps the drawn history; the draws that follow append to it.
StopThenRestart ==
  \A in \in SoloInputs.stop :
    LET g  == Lookup(World, normalizeCode(in[2]))
        w1 == hostStop(World, in[1], in[2])
        w2 == hostStart(w1, in[1], in[2])
    IN g # NoObj =>
         /\ w1.heap = [heap EXCEPT ![g].started = FALSE, ![g].interval = FALSE]
         /\ w1.games = games /\ w1.activeGameId = activeGameId
         /\ (~heap[g].closed /\ Len(heap[g].players) > 0) =>
              /\ w2.ack = Ack(TRUE, "")
              /\ w2.heap = [heap EXCEPT ![g].started = TRUE, ![g].interval = TRUE]
              /\ g \in w2.armed
              /\ \A rnd \in RandomIndexes(heap[g]) :
                   LET w3 == intervalCallback(w2, g, rnd) IN
                   Len(heap[g].drawn) < PoolSize =>
                     \E n \in Numbers \ Range(heap[g].drawn) :
                       w3.heap[g].drawn = Append(heap[g].drawn, n)

\* A session started again after a stop goes on from its history: it runs
\* with numbers drawn while the first draw of the new start is pending and
\* the first draw of the earlier start has been made.
StopThenRestartWitness ==
  \E c \in DOMAIN games :
    /\ Session(c).started /\ Session(c).interval
    /\ Len(Session(c).drawn) >= 2
    /\ games[c] \in Range(timeouts)

\* C17: player:join goes to the registry entry under the normalised code when
\* the code is not blank and to the session the active-session pointer names
\* when it is blank, and answers 'Waiting for host to start a game' when there
\* is no such session; a join that fails (also with 'Game already ended',
\* 'Name required', 'Name already taken') changes no state; a join that
\* succeeds names the target's code and adds or replaces the entry of the
\* connection in the target's player list and nothing else.
JoinResolution ==
  \A in \in SoloInputs.join :
    LET g == JoinTarget(in[2])
        w == playerJoin(World, in[1], in[2], in[3], in[4])
    IN /\ g = NoObj => w = reply(World, Ack(FALSE, "Waiting for host to start a game"))
       /\ (g # NoObj /\ heap[g].closed) => w = reply(World, Ack(FALSE, "Game already ended"))
       /\ ~w.ack.ok => w = reply(World, w.ack)
       /\ w.ack.ok =>
            /\ g # NoObj /\ w.ack.gameId = heap[g].id
            /\ w.heap = [heap EXCEPT ![g].players = w.heap[g].players]
            /\ \E p \in EntriesOf(w.heap[g].players, in[1]) :
                 p.name = trim(in[3]) /\ ~p.disqualified
            /\ \A i \in 1..Len(heap[g].players) :
                 heap[g].players[i].id # in[1] =>
                   heap[g].players[i] \in EntriesOf(w.heap[g].players, heap[g].players[i].id)
            /\ w.games = games /\ w.activeGameId = activeGameId

\* s2 has joined as "Al", which it only does with a blank code, a session
\* that the active-session pointer names; a join with an unknown code is
\* refused here although the pointer names a session.
JoinResolutionWitness ==
  \E c \in DOMAIN games :
    /\ activeGameId = c /\ ~Session(c).closed
    /\ Unknown \notin DOMAIN games
    /\ \E p \in EntriesOf(Session(c).players, "s2") : p.name = NameAl

\* The grids C18 is checked on for a grid marked a player holds: marked
\* itself, marked without the centre, and marked with each line added, whole
\* or but for one cell.
Variations(marked) ==
  {marked, [marked EXCEPT ![<<Centre, Centre>>] = FALSE]}
    \cup {[cell \in Cells |-> marked[cell] \/ cell \in line] : line \in Lines}
    \cup {[cell \in Cells |-> marked[cell] \/ cell \in line \ {x}] :
            <<line, x>> \in {q \in Lines \X Cells : q[2] \in q[1]}}

\* C18: hasBingo(marked) is true if and only if one of the 5 rows, the 5
\* columns, the main diagonal or the anti-diagonal of the grid is entirely
\* true; it is false for the all-false grid, and a player:claim, which
\* evaluates it, leaves the grid as it is.
BingoIffLine ==
  /\ ~hasBingo(GridOf({}))
  /\ \A g \in Range(games) :
       \A i \in 1..Len(heap[g].players) :
         LET marked == heap[g].players[i].card.marked IN
         /\ \A v \in Variations(marked) : hasBingo(v) <=> SomeLineFull(v)
         /\ \A in \in GridInputs.claim :
              LET w == playerClaim(World, in[1], in[2]) IN
              \A p \in EntriesOf(w.heap[g].players, heap[g].players[i].id) :
                p.card.marked = marked

\* The session has been won by a grid in which the anti-diagonal is the only
\* full line.
BingoIffLineWitness ==
  \E g \in Range(games) :
    /\ heap[g].closed
    /\ \E i \in 1..Len(heap[g].players) :
         LET marked == heap[g].players[i].card.marked IN
         /\ heap[g].winner.id = heap[g].players[i].id
         /\ \A line \in Lines :
              (\A cell \in line : marked[cell])
                <=> line = {cell \in Cells : cell[1] + cell[2] = GridSize - 1}

\* C19: the disconnect of a connection removes that connection's player entry
\* from every session of the registry in which it appears and changes nothing
\* else: the other players, started, closed, winner, drawn, current, the
\* timers and the active-session pointer are as before, and the rooms of the
\* sessions it was in are sent the new player list.
DisconnectFrame ==
  \A socket \in DuoInputs.disconnect :
    LET w == disconnect(World, socket) IN
    /\ \A g \in Slots :
         IF g \in Range(games)
           THEN /\ w.heap[g] = [heap[g] EXCEPT !.players = w.heap[g].players]
                /\ EntriesOf(w.heap[g].players, socket) = {}
                /\ \A i \in 1..Len(heap[g].players) :
                     heap[g].players[i].id # socket =>
                       \E k \in 1..Len(w.heap[g].players) :
                         w.heap[g].players[k] = heap[g].players[i]
                /\ Len(w.heap[g].players) =
                     Len(heap[g].players) - Cardinality(EntriesOf(heap[g].players, socket))
           ELSE w.heap[g] = heap[g]
    /\ w.games = games /\ w.activeGameId = activeGameId
    /\ w.armed = armed /\ w.timeouts = timeouts
    /\ w.meta = meta /\ w.feed = feed
    /\ \A c \in DOMAIN games :
         w.roster[c] = IF EntriesOf(Session(c).players, socket) # {}
                         THEN PlayersPayload(w.heap[games[c]]) ELSE roster[c]

\* The winner of "ABCD" has disconnected: it is still the recorded winner
\* and is in no player list, while "WXYZ" runs on with its player.
DisconnectFrameWitness ==
  /\ DOMAIN games = {CodeA, CodeB}
  /\ Session(CodeA).closed /\ Session(CodeA).winner.id = "s1"
  /\ \A c \in DOMAIN games : EntriesOf(Session(c).players, "s1") = {}
  /\ Session(CodeB).started /\ Len(Session(CodeB).players) > 0

\* C20: observers stay consistent with the session.  After every event the
\* last state:meta payload sent to a code's room equals started, closed,
\* winner, drawnCount and current of the session registered under that code,
\* and the last state:players payload equals that session's player list with
\* the disqualified flags.
ObserversConsistent ==
  \A c \in DOMAIN games :
    /\ c \in DOMAIN meta /\ meta[c] = MetaPayload(Session(c))
    /\ c \in DOMAIN roster /\ roster[c] = PlayersPayload(Session(c))

\* C21: draws happen only while running.  The drawn sequence of a session
\* object changes only in a step taken where started is true and closed is
\* false; where the session is stopped or closed, neither the repeating timer
\* nor the delayed first draw of an earlier host:start changes anything.
DrawsOnlyRunningStep ==
  \A g \in Slots :
    /\ (heap[g] # Free /\ heap'[g] # Free /\ heap'[g].drawn # heap[g].drawn) =>
         (heap[g].started /\ ~heap[g].closed)
    /\ (heap[g] # Free /\ (~heap[g].started \/ heap[g].closed)) =>
         \A rnd \in RandomIndexes(heap[g]) :
           /\ timeoutCallback(World, g, rnd) = World
           /\ intervalCallback(World, g, rnd) = World

DrawsOnlyRunning == [][DrawsOnlyRunningStep]_vars

\* A session stopped in mid-game while the first draw of its last host:start
\* is still pending: the timeout will fire on a session that is not running.
DrawsOnlyRunningWitness ==
  \E c \in DOMAIN games :
    /\ ~Session(c).started /\ ~Session(c).closed
    /\ Session(c).drawn # <<>>
    /\ games[c] \in Range(timeouts)

\* The session in slot g has run out: all 75 numbers are drawn, it is not
\* started and its repeating timer is cancelled.
RunOut(g) ==
  /\ Len(heap[g].drawn) = PoolSize
  /\ ~heap[g].started /\ ~heap[g].interval /\ g \notin armed

\* C22: liveness of auto-draw.  With the repeating timer firing fairly, a
\* started session that gets no host:stop, no host:reset and no winning mark
\* eventually has all 75 numbers drawn and is then not started, with its
\* timer cancelled, and it is never marked closed.
AutoDrawRunsOut ==
  /\ [](\A g \in Range(games) : ~heap[g].closed)
  /\ \A g \in Slots :
       (g \in Range(games) /\ heap[g].started) ~> (g \in Range(games) /\ RunOut(g))

\* The game has run out with a mark of Bob's on the card and the room told
\* of the last number.
AutoDrawRunsOutWitness ==
  \E c \in DOMAIN games :
    /\ RunOut(games[c]) /\ ~Session(c).closed
    /\ Len(Session(c).players) > 0
    /\ feed[c] = Session(c).current
    /\ \E i \in 1..Len(Session(c).players) :
         Session(c).players[i].card.marked # FreshMarked

\* A handler result w closes no session object that was not closed before.
ClosesNothing(w) ==
  \A g \in Slots :
    (w.heap[g] # Free /\ w.heap[g].closed) => (heap[g] # Free /\ heap[g].closed)

\* C23: no player of a non-closed registry session has a marked grid with a
\* complete line (the mark that completes a line closes the session in the
\* same step); so every player:claim that passes the guards answers
\* valid=false, disqualified=true and disqualifies the caller, and no handler
\* or timer other than player:mark closes a session.
NoOpenBingo ==
  /\ \A c \in DOMAIN games :
       ~Session(c).closed =>
         \A i \in 1..Len(Session(c).players) :
           ~hasBingo(Session(c).players[i].card.marked)
  /\ \A in \in SoloInputs.claim :
       LET g == Lookup(World, normalizeCode(in[2])) IN
       (/\ g # NoObj /\ ~heap[g].closed /\ heap[g].started
        /\ PlayerIndex(heap[g], in[1]) # 0) =>
         LET w == playerClaim(World, in[1], in[2])
             i == PlayerIndex(heap[g], in[1])
         IN /\ w.ack = [Ack(TRUE, "") EXCEPT !.valid = "false", !.disqualified = "true"]
            /\ w.heap[g].players[i].disqualified
            /\ ~w.heap[g].closed
  /\ \A in \in SoloInputs.create :
       (FreeSlots(World) # {} /\ in[2] \notin DOMAIN games) =>
         ClosesNothing(hostCreate(World, in[1], in[2]))
  /\ \A in \in SoloInputs.hostJoin : ClosesNothing(hostJoin(World, in[1], in[2]))
  /\ \A in \in SoloInputs.start : ClosesNothing(hostStart(World, in[1], in[2]))
  /\ \A in \in SoloInputs.stop : ClosesNothing(hostStop(World, in[1], in[2]))
  /\ \A in \in SoloInputs.reset :
       (Lookup(World, normalizeCode(in[2])) # NoObj => FreeSlots(World) # {}) =>
         ClosesNothing(hostReset(World, in[1], in[2]))
  /\ \A in \in SoloInputs.join : ClosesNothing(playerJoin(World, in[1], in[2], in[3], in[4]))
  /\ \A in \in SoloInputs.claim : ClosesNothing(playerClaim(World, in[1], in[2]))
  /\ \A socket \in SoloInputs.disconnect : ClosesNothing(disconnect(World, socket))
  /\ \A g \in armed :
       \A rnd \in CallbackIndexes(g) : ClosesNothing(intervalCallback(World, g, rnd))
  /\ timeouts # <<>> =>
       \A rnd \in CallbackIndexes(Head(timeouts)) :
         ClosesNothing(timeoutCallback([World EXCEPT !.timeouts = Tail(@)],
                                       Head(timeouts), rnd))

\* A running session in which s1 is disqualified by a false claim and s2 has
\* marked three cells of the main diagonal and is one mark short of the line.
NoOpenBingoWitness ==
  \E c \in DOMAIN games :
    /\ Session(c).started /\ ~Session(c).closed
    /\ \E j \in 1..Len(Session(c).players) :
         Session(c).players[j].id = "s1" /\ Session(c).players[j].disqualified
    /\ \E i \in 1..Len(Session(c).players) :
         LET marked == Session(c).players[i].card.marked IN
         /\ Session(c).players[i].id = "s2"
         /\ marked[<<0, 0>>] /\ marked[<<1, 1>>] /\ marked[<<3, 3>>] /\ ~marked[<<4, 4>>]
         /\ hasBingo([marked EXCEPT ![<<4, 4>>] = TRUE])

\* C24: the active-session pointer is null or the code of a registered
\* session that is not closed; so a player:join without a code is never
\* answered "Game already ended", and a host:join of a closed session leaves
\* the pointer as it is.
ActiveIsOpen ==
  /\ activeGameId # NoCode =>
       (activeGameId \in DOMAIN games /\ ~Session(activeGameId).closed)
  /\ \A in \in DuoInputs.join :
       normalizeCode(in[2]) = NoCode =>
         playerJoin(World, in[1], in[2], in[3], in[4]).ack
           # Ack(FALSE, "Game already ended")
  /\ \A in \in DuoInputs.hostJoin :
       LET g == Lookup(World, normalizeCode(in[2])) IN
       (g # NoObj /\ heap[g].closed) =>
         hostJoin(World, in[1], in[2]).activeGameId = activeGameId

\* "ABCD" is won and closed, and the host's host:join of "WXYZ" has made
\* that open session the active one again; s2 joined it without a code.
ActiveIsOpenWitness ==
  /\ CodeA \in DOMAIN games /\ Session(CodeA).closed
  /\ activeGameId = CodeB /\ ~Session(CodeB).closed
  /\ \E i \in 1..Len(Session(CodeB).players) : Session(CodeB).players[i].id = "s2"

\* A step that closes session x by a win while the active-session pointer
\* designates another, open session y leaves the pointer on y.
OtherWinKeepsActiveStep ==
  \A x \in DOMAIN games :
    \A y \in DOMAIN games :
      (/\ x # y /\ activeGameId = y /\ ~Session(y).closed
       /\ ~Session(x).closed
       /\ games' = games
       /\ SessionNext(x).closed /\ SessionNext(x).winner # NoWinner) =>
        activeGameId' = y

\* C25: a win in one session does not disturb joins without a code to
\* another: when a winning mark closes session x while the active-session
\* pointer designates a different, open session y, the pointer still
\* designates y afterwards.
OtherWinKeepsActive == [][OtherWinKeepsActiveStep]_vars

\* C7: closed implies not started, for every registered session.
ClosedNotStarted ==
  \A c \in DOMAIN games : Session(c).closed => ~Session(c).started

\* A closed session is registered.
ClosedNotStartedWitness ==
  \E c \in DOMAIN games : Session(c).closed

=============================================================================
